---- MODULE Spec2Model ----
(***************************************************************************)
(* On-call scheduling and escalation-policy engine of the team/user        *)
(* management service: the OnCallSchedule store with its pre-save overlap  *)
(* auto-resolution, the schedule controller, and the versioned             *)
(* EscalationPolicy store.  Times are milliseconds since an epoch.         *)
(***************************************************************************)
EXTENDS Integers, Sequences, FiniteSets, TLC

(***************************************************************************)
(* Bounds of the model and program constants.                              *)
(***************************************************************************)
MaxSched == 2              \* schedule documents ever inserted
MaxSave == 3               \* schedule documents of one team and level in SpecSave
MaxSlot == 4               \* request times are 0..MaxSlot grace-lengths
MaxPol == 2                \* policy documents ever inserted
MaxVersion == 3            \* largest version number a request may carry
MaxTick == 2               \* half-days the clock advances in SpecPurge
MaxOverlap == 1            \* schedule documents in SpecOverlap
MaxPurge == 1              \* policy documents in SpecPurge

DEFAULT_GRACE_MINUTES == 5 \* doc.$locals?.gracePeriodMinutes ?? 5
MS_PER_MINUTE == 60000     \* graceMinutes * 60 * 1000
MS_PER_DAY == 86400000     \* cutoff.setDate(cutoff.getDate() - days)

Teams == {"T1", "T2"}
Users == {"U1"}
Priorities == {1, 2}
Procs == {"p1", "p2"}

GraceMs == DEFAULT_GRACE_MINUTES * MS_PER_MINUTE
TimePoints == {k * GraceMs : k \in 0..MaxSlot}
Days == 0..1

NullDate == <<>>           \* deletedAt: null; a date d is <<d>>

VARIABLES
    now,        \* the wall clock, new Date()
    sched,      \* OnCallSchedule collection: _id -> document
    schedNext,  \* next fresh schedule _id
    schedRes,   \* outcome of the last schedule request
    spc,        \* per in-flight createOnCallSchedule request: its position and locals
    pol,        \* EscalationPolicy collection: _id -> document
    polNext,    \* next fresh policy _id
    polRes,     \* outcome of the last policy request
    assigned,   \* per team: the version the last successful createNewVersion assigned
    ppc,        \* per in-flight createNewVersion / rollbackToVersion call: position and locals
    dir,        \* Service, Team and User collections as the resolver reads them
    resp        \* response of the last read request

schedVars == <<sched, schedNext, schedRes, spc>>
polVars == <<pol, polNext, polRes, assigned, ppc>>
vars == <<now, sched, schedNext, schedRes, spc, pol, polNext, polRes, assigned, ppc, dir, resp>>

Min(a, b) == IF a <= b THEN a ELSE b
Max(a, b) == IF a >= b THEN a ELSE b
Abs(a) == IF a < 0 THEN 0 - a ELSE a

\* All orders in which a query without a sort may return the documents S.
Perms(S) ==
    {f \in [1..Cardinality(S) -> S] : \A i, j \in 1..Cardinality(S) : f[i] = f[j] => i = j}

Put(st, d) == [i \in (DOMAIN st) \cup {d.id} |-> IF i = d.id THEN d ELSE st[i]]

Drop(st, ids) == [i \in (DOMAIN st) \ ids |-> st[i]]

(***************************************************************************)
(* OnCallSchedule schema and instance methods.                             *)
(***************************************************************************)
NewSchedule(id, teamId, userId, priorityLevel, startTime, endTime) ==
    [id |-> id, teamId |-> teamId, userId |-> userId, priorityLevel |-> priorityLevel,
     startTime |-> startTime, endTime |-> endTime,
     isDeleted |-> FALSE, deletedAt |-> NullDate]

\* endTime.validate: run by every document save, on the in-memory values.
EndTimeValidator(doc) == doc.endTime > doc.startTime

\* A comparison that counts touching intervals as overlapping.
overlapsInclusive(doc, otherStart, otherEnd, graceMinutes) ==
    LET graceMs == graceMinutes * MS_PER_MINUTE
        adjustedStart == doc.startTime - graceMs
        adjustedEnd == doc.endTime + graceMs
    IN adjustedStart <= otherEnd /\ adjustedEnd >= otherStart

overlapsWith(doc, otherStart, otherEnd, graceMinutes) ==
    LET graceMs == graceMinutes * MS_PER_MINUTE
        adjustedStart == doc.startTime - graceMs
        adjustedEnd == doc.endTime + graceMs
    IN adjustedStart < otherEnd /\ adjustedEnd > otherStart

(***************************************************************************)
(* pre("save"): conflict prevention and auto-resolution.  ord is the order *)
(* in which the store returns documents to an unsorted find.  A save       *)
(* yields [ok, st, doc]: whether it succeeded, the collection after the    *)
(* writes of the conflict saves it made, and the document as it is         *)
(* written.  A conflict save writes the modified paths of its snapshot.    *)
(***************************************************************************)
ConflictIds(st, doc) ==
    LET adjustedStart == doc.startTime - GraceMs
        adjustedEnd == doc.endTime + GraceMs
    IN {i \in DOMAIN st :
            /\ i # doc.id
            /\ st[i].teamId = doc.teamId
            /\ st[i].priorityLevel = doc.priorityLevel
            /\ st[i].isDeleted = FALSE
            /\ st[i].startTime < adjustedEnd
            /\ st[i].endTime > adjustedStart}

FindConflicts(st, doc, ord) ==
    LET hits == SelectSeq(ord, LAMBDA i : i \in ConflictIds(st, doc))
    IN [k \in 1..Len(hits) |-> st[hits[k]]]

\* document.save() of a loaded document: $set of the modified paths.
WriteModified(st, old, new) ==
    IF old.id \notin DOMAIN st THEN st
    ELSE [st EXCEPT ![old.id] =
            [f \in DOMAIN old |-> IF new[f] # old[f] THEN new[f] ELSE st[old.id][f]]]

RECURSIVE PreSave(_, _, _, _, _), Resolve(_, _, _, _, _), ResolveOne(_, _, _, _, _)

SaveConflict(st, snapshot, changed, ord, t) ==
    LET r == PreSave(st, changed, FALSE, ord, t)
    IN IF r.ok THEN [ok |-> TRUE, st |-> WriteModified(r.st, snapshot, r.doc)]
       ELSE [ok |-> FALSE, st |-> r.st]

\* One iteration of `for (const conflict of conflicts)`.
ResolveOne(st, doc, conflict, ord, t) ==
    LET overlapStart == Max(conflict.startTime, doc.startTime)
        overlapEnd == Min(conflict.endTime, doc.endTime)
        overlapDuration == overlapEnd - overlapStart
    IN IF Abs(overlapDuration) <= GraceMs
         THEN [ok |-> TRUE, st |-> st, doc |-> doc]
       ELSE IF conflict.endTime > doc.startTime /\ conflict.endTime < doc.endTime
         THEN LET s == SaveConflict(st, conflict,
                         [conflict EXCEPT !.endTime = doc.startTime - 1], ord, t)
              IN [ok |-> s.ok, st |-> s.st, doc |-> doc]
       ELSE IF doc.startTime < conflict.endTime /\ doc.startTime > conflict.startTime
         THEN [ok |-> TRUE, st |-> st,
               doc |-> [doc EXCEPT !.startTime = conflict.endTime + 1]]
       ELSE IF conflict.startTime < doc.startTime
         THEN LET s == SaveConflict(st, conflict,
                         [conflict EXCEPT !.isDeleted = TRUE, !.deletedAt = <<t>>], ord, t)
              IN [ok |-> s.ok, st |-> s.st, doc |-> doc]
       ELSE [ok |-> TRUE, st |-> st,
             doc |-> [doc EXCEPT !.startTime = conflict.endTime + 1]]

Resolve(st, doc, conflicts, ord, t) ==
    IF conflicts = <<>> THEN [ok |-> TRUE, st |-> st, doc |-> doc]
    ELSE LET r == ResolveOne(st, doc, Head(conflicts), ord, t)
         IN IF r.ok THEN Resolve(r.st, r.doc, Tail(conflicts), ord, t) ELSE r

\* Validation is the first pre-save hook, so it sees the document before any
\* boundary shift of the auto-resolution.
PreSave(st, doc, skipConflictCheck, ord, t) ==
    IF ~EndTimeValidator(doc) THEN [ok |-> FALSE, st |-> st, doc |-> doc]
    ELSE IF doc.isDeleted \/ skipConflictCheck THEN [ok |-> TRUE, st |-> st, doc |-> doc]
    ELSE Resolve(st, doc, FindConflicts(st, doc, ord), ord, t)

\* Model.create / new Model(..).save(): the hooks, then the insert.  The
\* insert is a store call and may be rejected by the store (insertFails).
SaveNew(st, doc, ord, t, insertFails) ==
    LET r == PreSave(st, doc, FALSE, ord, t)
    IN IF r.ok /\ ~insertFails THEN [ok |-> TRUE, st |-> Put(r.st, r.doc)]
       ELSE [ok |-> FALSE, st |-> r.st]

(***************************************************************************)
(* Schedule controller and model statics, one action per request.          *)
(***************************************************************************)
\* The reject-mode query of the controllers; the find hook adds isDeleted: false.
OverlapQuery(st, exceptId, teamId, start, end) ==
    {i \in DOMAIN st :
        /\ i # exceptId
        /\ st[i].isDeleted = FALSE
        /\ st[i].teamId = teamId
        /\ st[i].startTime <= end
        /\ st[i].endTime >= start}

FindById(st, id) == id \in DOMAIN st /\ st[id].isDeleted = FALSE

Res(op, status) == [op |-> op, status |-> status]

\* A check that lets an empty interval through.
EndBeforeStart(startTime, endTime) == startTime > endTime

\* if (start >= end) throw new AppError("startTime must be before endTime", 400)
InvalidInterval(startTime, endTime) == startTime >= endTime

createOnCallSchedule(teamId, userId, priorityLevel, startTime, endTime, ord, insertFails) ==
    /\ IF InvalidInterval(startTime, endTime)
         THEN /\ schedRes' = Res("create", "invalid")
              /\ UNCHANGED <<sched, schedNext>>
       ELSE IF OverlapQuery(sched, 0, teamId, startTime, endTime) # {}
         THEN /\ schedRes' = Res("create", "conflict")
              /\ UNCHANGED <<sched, schedNext>>
       ELSE LET doc == NewSchedule(schedNext, teamId, userId, priorityLevel, startTime, endTime)
                r == SaveNew(sched, doc, ord, now, insertFails)
            IN /\ sched' = r.st
               /\ schedNext' = IF r.ok THEN schedNext + 1 ELSE schedNext
               /\ schedRes' = Res("create", IF r.ok THEN "ok" ELSE "error")
    /\ UNCHANGED <<now, dir, resp, spc, polVars>>

\* new OnCallScheduleModel({...}).save(): persistence with auto-resolution only.
saveSchedule(teamId, userId, priorityLevel, startTime, endTime, ord, insertFails) ==
    /\ LET doc == NewSchedule(schedNext, teamId, userId, priorityLevel, startTime, endTime)
           r == SaveNew(sched, doc, ord, now, insertFails)
       IN /\ sched' = r.st
          /\ schedNext' = IF r.ok THEN schedNext + 1 ELSE schedNext
          /\ schedRes' = Res("save", IF r.ok THEN "ok" ELSE "error")
    /\ UNCHANGED <<now, dir, resp, spc, polVars>>

\* Update validators run with the query as `this`: this.startTime is undefined
\* and `v > undefined` is false, so an update that sets endTime is invalid.
UpdateValidators(updates) == "endTime" \notin DOMAIN updates

ApplyUpdates(doc, updates) ==
    [f \in DOMAIN doc |-> IF f \in DOMAIN updates THEN updates[f] ELSE doc[f]]

updateOnCallSchedule(id, updates) ==
    LET timed == "startTime" \in DOMAIN updates \/ "endTime" \in DOMAIN updates
        start == IF "startTime" \in DOMAIN updates THEN updates.startTime
                 ELSE sched[id].startTime
        end == IF "endTime" \in DOMAIN updates THEN updates.endTime
               ELSE sched[id].endTime
    IN /\ IF timed /\ ~FindById(sched, id)
            THEN /\ schedRes' = Res("update", "notfound")
                 /\ UNCHANGED sched
          ELSE IF timed /\ OverlapQuery(sched, id, sched[id].teamId, start, end) # {}
            THEN /\ schedRes' = Res("update", "conflict")
                 /\ UNCHANGED sched
          ELSE IF ~UpdateValidators(updates)
            THEN /\ schedRes' = Res("update", "error")
                 /\ UNCHANGED sched
          ELSE IF ~FindById(sched, id)
            THEN /\ schedRes' = Res("update", "notfound")
                 /\ UNCHANGED sched
          ELSE /\ sched' = [sched EXCEPT ![id] = ApplyUpdates(sched[id], updates)]
               /\ schedRes' = Res("update", "ok")
       /\ UNCHANGED <<now, dir, resp, schedNext, spc, polVars>>

\* schedule.softDelete(): sets the tombstone and saves (validation runs, the
\* auto-resolution returns early on isDeleted).
softDelete(st, doc, ord, t) ==
    LET changed == [doc EXCEPT !.isDeleted = TRUE, !.deletedAt = <<t>>]
        r == PreSave(st, changed, FALSE, ord, t)
    IN IF r.ok THEN [ok |-> TRUE, st |-> WriteModified(r.st, doc, r.doc)]
       ELSE [ok |-> FALSE, st |-> r.st]

softDeleteOnCallSchedule(id) ==
    /\ IF ~FindById(sched, id)
         THEN /\ schedRes' = Res("delete", "notfound")
              /\ UNCHANGED sched
       ELSE LET r == softDelete(sched, sched[id], <<>>, now)
            IN /\ sched' = r.st
               /\ schedRes' = Res("delete", IF r.ok THEN "ok" ELSE "error")
    /\ UNCHANGED <<now, dir, resp, schedNext, spc, polVars>>

\* A filter with $lt in place of $lte.
ExpiredStrict(st, days, t) ==
    LET cutoff == t - days * MS_PER_DAY
    IN {i \in DOMAIN st :
          st[i].isDeleted = TRUE /\ st[i].deletedAt # NullDate /\ st[i].deletedAt[1] < cutoff}

\* deleteMany({isDeleted: true, deletedAt: {$lte: cutoff}}).
Expired(st, days, t) ==
    LET cutoff == t - days * MS_PER_DAY
    IN {i \in DOMAIN st :
          st[i].isDeleted = TRUE /\ st[i].deletedAt # NullDate /\ st[i].deletedAt[1] <= cutoff}

\* return result.deletedCount || 0, with the arguments of the call.
PurgeRes(ids, days, t) ==
    [op |-> "purge", status |-> IF ids = {} THEN "none" ELSE "ok",
     count |-> Cardinality(ids), days |-> days, at |-> t]

\* A purge that removes one matching document per call (deleteOne).
purgeOneOld(days) ==
    /\ \E ids \in {x \in SUBSET Expired(sched, days, now) :
                      Cardinality(x) = Min(1, Cardinality(Expired(sched, days, now)))} :
         /\ sched' = Drop(sched, ids)
         /\ schedRes' = PurgeRes(ids, days, now)
    /\ UNCHANGED <<now, dir, resp, schedNext, spc, polVars>>

permanentlyDeleteOld(days) ==
    /\ sched' = Drop(sched, Expired(sched, days, now))
    /\ schedRes' = PurgeRes(Expired(sched, days, now), days, now)
    /\ UNCHANGED <<now, dir, resp, schedNext, spc, polVars>>

\* Request bodies of PATCH /on-call-schedules/:id.
UpdateSet ==
    {[startTime |-> s] : s \in TimePoints}
      \cup {[endTime |-> e] : e \in TimePoints}
      \cup {[teamId |-> t] : t \in Teams}
      \cup {[priorityLevel |-> p] : p \in Priorities}

\* The services are fixed ("retired" is soft-deleted); the teams and users
\* that exist vary.
Directory(teams, users) ==
    [services |-> [n \in {"billing", "orphan", "retired"} |->
                     [teamId |-> IF n = "orphan" THEN "T2" ELSE "T1",
                      isDeleted |-> n = "retired"]],
     teams |-> teams, users |-> users]

NoResponse == [op |-> "none"]

IdleCall ==
    [pc |-> "idle", status |-> "none", teamId |-> "none", updates |-> <<>>,
     version |-> 0, latest |-> <<>>]

IdleCreate == [pc |-> "idle", status |-> "none", doc |-> <<>>, conflicts |-> <<>>]

Init ==
    /\ now = 0
    /\ sched = <<>>
    /\ schedNext = 1
    /\ schedRes = Res("none", "none")
    /\ spc = [p \in Procs |-> IdleCreate]
    /\ pol = <<>>
    /\ polNext = 1
    /\ polRes = [op |-> "none", status |-> "none", teamId |-> "none", version |-> 0, id |-> 0]
    /\ assigned = [t \in Teams |-> 0]
    /\ ppc = [p \in Procs |-> IdleCall]
    /\ dir = Directory({"T1", "T2"}, {"U1"})
    /\ resp = NoResponse

Next ==
    \/ /\ schedNext <= MaxSched
       /\ \E t \in Teams, u \in Users, p \in Priorities, s, e \in TimePoints :
            \E ord \in Perms(DOMAIN sched) : createOnCallSchedule(t, u, p, s, e, ord, FALSE)
    \/ /\ schedNext <= MaxSched
       /\ \E t \in Teams, u \in Users, p \in Priorities, s, e \in TimePoints :
            \E ord \in Perms(DOMAIN sched) : saveSchedule(t, u, p, s, e, ord, FALSE)
    \/ \E id \in 1..MaxSched, updates \in UpdateSet : updateOnCallSchedule(id, updates)
    \/ \E id \in 1..MaxSched : softDeleteOnCallSchedule(id)
    \/ \E days \in Days : permanentlyDeleteOld(days)

Spec == Init /\ [][Next]_vars

\* Direct saves and soft-deletes within one team and priority level: the
\* auto-resolution with up to MaxSave - 1 conflicting documents.
NextSave ==
    \/ /\ schedNext <= MaxSave
       /\ \E s, e \in TimePoints : \E ord \in Perms(DOMAIN sched), insertFails \in BOOLEAN :
            saveSchedule("T1", "U1", 1, s, e, ord, insertFails)
    \/ \E id \in 1..MaxSave : softDeleteOnCallSchedule(id)

SpecSave == Init /\ [][NextSave]_vars

(***************************************************************************)
(* createOnCallSchedule requests in flight together: one step per store    *)
(* call of a request (the reject-mode findOne, the find of the pre-save    *)
(* hook, each conflict save, the insert).                                  *)
(***************************************************************************)
Finish(p, status) ==
    spc' = [spc EXCEPT ![p] = [pc |-> "done", status |-> status, doc |-> <<>>, conflicts |-> <<>>]]

\* Body validation, then the request waits for its overlap query.
createBegin(p, teamId, userId, priorityLevel, startTime, endTime) ==
    /\ spc[p].pc = "idle"
    /\ IF InvalidInterval(startTime, endTime)
         THEN Finish(p, "invalid")
       ELSE spc' = [spc EXCEPT ![p] =
              [pc |-> "query", status |-> "none", conflicts |-> <<>>,
               doc |-> NewSchedule(0, teamId, userId, priorityLevel, startTime, endTime)]]
    /\ UNCHANGED <<now, dir, resp, sched, schedNext, schedRes, polVars>>

\* await OnCallScheduleModel.findOne({teamId, $or: [...]}); Model.create
\* then builds the document with a fresh _id.
createQuery(p) ==
    /\ spc[p].pc = "query"
    /\ LET d == spc[p].doc
       IN IF OverlapQuery(sched, 0, d.teamId, d.startTime, d.endTime) # {}
            THEN Finish(p, "conflict") /\ UNCHANGED schedNext
          ELSE /\ spc' = [spc EXCEPT ![p].pc = "find", ![p].doc = [d EXCEPT !.id = schedNext]]
               /\ schedNext' = schedNext + 1
    /\ UNCHANGED <<now, dir, resp, sched, schedRes, polVars>>

\* Validation, then await mongoose.models.OnCallSchedule.find({...}).
createFind(p, ord) ==
    /\ spc[p].pc = "find"
    /\ IF ~EndTimeValidator(spc[p].doc)
         THEN Finish(p, "error")
       ELSE LET found == FindConflicts(sched, spc[p].doc, ord)
            IN spc' = [spc EXCEPT ![p].conflicts = found,
                                  ![p].pc = IF found = <<>> THEN "insert" ELSE "resolve"]
    /\ UNCHANGED <<now, dir, resp, sched, schedNext, schedRes, polVars>>

\* One loop iteration, up to and including its `await conflict.save()`.
createResolve(p, ord) ==
    /\ spc[p].pc = "resolve"
    /\ LET r == ResolveOne(sched, spc[p].doc, Head(spc[p].conflicts), ord, now)
           rest == Tail(spc[p].conflicts)
       IN /\ sched' = r.st
          /\ IF ~r.ok THEN Finish(p, "error")
             ELSE spc' = [spc EXCEPT ![p].doc = r.doc, ![p].conflicts = rest,
                                     ![p].pc = IF rest = <<>> THEN "insert" ELSE "resolve"]
    /\ UNCHANGED <<now, dir, resp, schedNext, schedRes, polVars>>

\* The insert of the new document.
createInsert(p) ==
    /\ spc[p].pc = "insert"
    /\ sched' = Put(sched, spc[p].doc)
    /\ Finish(p, "ok")
    /\ UNCHANGED <<now, dir, resp, schedNext, schedRes, polVars>>

NextCreate ==
    \/ \E p \in Procs, s, e \in TimePoints : createBegin(p, "T1", "U1", 1, s, e)
    \/ \E p \in Procs : createQuery(p)
    \/ \E p \in Procs : \E ord \in Perms(DOMAIN sched) : createFind(p, ord)
    \/ \E p \in Procs : \E ord \in Perms(DOMAIN sched) : createResolve(p, ord)
    \/ \E p \in Procs : createInsert(p)

SpecCreate == Init /\ [][NextCreate]_vars

(***************************************************************************)
(* EscalationPolicy schema, hooks and statics.  An optional document is a  *)
(* sequence of length 0 or 1.                                              *)
(***************************************************************************)
EscalationStep(order, timeoutMinutes, escalationType, escalationTargetId) ==
    [order |-> order, timeoutMinutes |-> timeoutMinutes,
     escalationType |-> escalationType, escalationTargetId |-> escalationTargetId]

\* pre("validate"): new Set(orders).size === orders.length.
UniqueOrders(steps) ==
    \A i, j \in 1..Len(steps) : steps[i].order = steps[j].order => i = j

\* pre("save"): escalationSteps.sort((a, b) => a.order - b.order), a stable sort.
InsertStep(sorted, x) ==
    LET k == Cardinality({i \in 1..Len(sorted) : sorted[i].order <= x.order})
    IN SubSeq(sorted, 1, k) \o <<x>> \o SubSeq(sorted, k + 1, Len(sorted))

RECURSIVE SortSteps(_)
SortSteps(steps) ==
    IF steps = <<>> THEN <<>>
    ELSE InsertStep(SortSteps(SubSeq(steps, 1, Len(steps) - 1)), steps[Len(steps)])

\* The unique index {teamId: 1, version: 1}.
VersionTaken(st, exceptId, teamId, version) ==
    \E i \in DOMAIN st : i # exceptId /\ st[i].teamId = teamId /\ st[i].version = version

\* pre(/^find/) adds isDeleted: false to every find, findOne and findOneAndUpdate.
FindPolicies(st, teamId) ==
    {i \in DOMAIN st : st[i].teamId = teamId /\ st[i].isDeleted = FALSE}

\* What a findOne may return: one matching document, or nothing when none matches.
OneOf(st, ids) == IF ids = {} THEN {<<>>} ELSE {<<st[i]>> : i \in ids}

LatestIds(st, teamId) == {i \in FindPolicies(st, teamId) : st[i].isLatest = TRUE}

findLatestByTeam(st, teamId) == OneOf(st, LatestIds(st, teamId))

findVersion(st, teamId, version) ==
    OneOf(st, {i \in FindPolicies(st, teamId) : st[i].version = version})

\* latest.isLatest = false; await latest.save(): validate hook, sort hook,
\* then $set of the modified paths.
FlipLatest(st, latest) ==
    IF ~UniqueOrders(latest.escalationSteps)
      THEN [ok |-> FALSE, st |-> st, doc |-> latest]
    ELSE LET saved == [latest EXCEPT !.isLatest = FALSE,
                                     !.escalationSteps = SortSteps(@)]
         IN [ok |-> TRUE, st |-> WriteModified(st, latest, saved), doc |-> saved]

\* The payload of createNewVersion: base (the saved previous latest, if any)
\* overridden by updates, then the fixed fields.
Payload(id, teamId, base, updates) ==
    [id |-> id,
     teamId |-> teamId,
     policyName |-> IF "policyName" \in DOMAIN updates THEN updates.policyName
                    ELSE IF base # <<>> THEN base[1].policyName ELSE "policy",
     escalationSteps |-> IF "escalationSteps" \in DOMAIN updates THEN updates.escalationSteps
                         ELSE IF base # <<>> THEN base[1].escalationSteps ELSE <<>>,
     version |-> (IF base # <<>> THEN base[1].version ELSE 0) + 1,
     isLatest |-> TRUE,
     isDeleted |-> FALSE,
     deletedAt |-> NullDate]

\* await created.save(): validate hook, sort hook, insert under the unique index.
InsertPolicy(st, doc) ==
    IF ~UniqueOrders(doc.escalationSteps) THEN [status |-> "invalid", st |-> st]
    ELSE IF VersionTaken(st, doc.id, doc.teamId, doc.version)
      THEN [status |-> "duplicate", st |-> st]
    ELSE [status |-> "ok",
          st |-> Put(st, [doc EXCEPT !.escalationSteps = SortSteps(@)])]

\* createNewVersion once its findOne({teamId, isLatest: true}) returned latest.
CreateNewVersion(st, id, teamId, updates, latest) ==
    IF latest = <<>> THEN InsertPolicy(st, Payload(id, teamId, <<>>, updates))
    ELSE LET f == FlipLatest(st, latest[1])
         IN IF ~f.ok THEN [status |-> "invalid", st |-> f.st]
            ELSE InsertPolicy(f.st, Payload(id, teamId, <<f.doc>>, updates))

PolRes(op, status, teamId, version, id) ==
    [op |-> op, status |-> status, teamId |-> teamId, version |-> version, id |-> id]

Assign(teamId, status, st, id) ==
    assigned' = IF status = "ok" THEN [assigned EXCEPT ![teamId] = st[id].version]
                ELSE assigned

createNewVersion(teamId, updates) ==
    /\ \E latest \in findLatestByTeam(pol, teamId) :
         LET r == CreateNewVersion(pol, polNext, teamId, updates, latest)
         IN /\ pol' = r.st
            /\ polNext' = IF r.status = "ok" THEN polNext + 1 ELSE polNext
            /\ polRes' = PolRes("createNewVersion", r.status, teamId, 0, polNext)
            /\ Assign(teamId, r.status, r.st, polNext)
    /\ UNCHANGED <<now, dir, resp, schedVars, ppc>>

rollbackToVersion(teamId, version) ==
    /\ \E target \in findVersion(pol, teamId, version) :
         IF target = <<>>
           THEN /\ polRes' = PolRes("rollbackToVersion", "notfound", teamId, version, 0)
                /\ UNCHANGED <<pol, polNext, assigned>>
         ELSE \E latest \in findLatestByTeam(pol, teamId) :
                LET updates == [policyName |-> target[1].policyName,
                                escalationSteps |-> target[1].escalationSteps]
                    r == CreateNewVersion(pol, polNext, teamId, updates, latest)
                IN /\ pol' = r.st
                   /\ polNext' = IF r.status = "ok" THEN polNext + 1 ELSE polNext
                   /\ polRes' = PolRes("rollbackToVersion", r.status, teamId, version, polNext)
                   /\ Assign(teamId, r.status, r.st, polNext)
    /\ UNCHANGED <<now, dir, resp, schedVars, ppc>>

policyPermanentlyDeleteOld(days) ==
    /\ pol' = Drop(pol, Expired(pol, days, now))
    /\ polRes' = PurgeRes(Expired(pol, days, now), days, now)
                     @@ PolRes("purge", "none", "none", 0, 0)
    /\ UNCHANGED <<now, dir, resp, schedVars, polNext, assigned, ppc>>

(***************************************************************************)
(* Escalation policy controller.                                           *)
(***************************************************************************)
\* policyName.trim() on the request names of the model.
Trim(name) == IF name = " p2 " THEN "p2" ELSE name

\* version 0 stands for a request body without version.
UpsertVersion(existing, version) ==
    IF version # 0 THEN version
    ELSE IF existing # <<>> THEN existing[1].version + 1 ELSE 1

\* A guard that looks at the tombstone flag instead of isLatest.
GuardChecksDeleted(existing) == existing # <<>> /\ existing[1].isDeleted = TRUE

\* pre("findOneAndUpdate"): if (doc && !doc.isLatest) return next(new Error(...))
NonLatestGuard(existing) == existing # <<>> /\ existing[1].isLatest = FALSE

\* findOne({teamId}), the pre("findOneAndUpdate") guard and findOneAndUpdate
\* run the same filter on the same collection: they meet the same document.
upsertPolicy(teamId, policyName, escalationSteps, version) ==
    /\ \E existing \in OneOf(pol, FindPolicies(pol, teamId)) :
         LET newVersion == UpsertVersion(existing, version)
             id == IF existing # <<>> THEN existing[1].id ELSE polNext
         IN IF existing # <<>> /\ version # 0 /\ version <= existing[1].version
              THEN /\ polRes' = PolRes("upsertPolicy", "conflict", teamId, version, id)
                   /\ UNCHANGED <<pol, polNext>>
            ELSE IF NonLatestGuard(existing)
              THEN /\ polRes' = PolRes("upsertPolicy", "error", teamId, version, id)
                   /\ UNCHANGED <<pol, polNext>>
            ELSE IF VersionTaken(pol, id, teamId, newVersion)
              THEN /\ polRes' = PolRes("upsertPolicy", "duplicate", teamId, version, id)
                   /\ UNCHANGED <<pol, polNext>>
            ELSE IF existing # <<>>
              THEN /\ pol' = [pol EXCEPT ![id].policyName = Trim(policyName),
                                         ![id].escalationSteps = escalationSteps,
                                         ![id].version = newVersion]
                   /\ polRes' = PolRes("upsertPolicy", "ok", teamId, version, id)
                   /\ UNCHANGED polNext
            ELSE /\ pol' = Put(pol, [id |-> id, teamId |-> teamId,
                                     policyName |-> Trim(policyName),
                                     escalationSteps |-> escalationSteps,
                                     version |-> newVersion, isLatest |-> TRUE,
                                     isDeleted |-> FALSE, deletedAt |-> NullDate])
                 /\ polNext' = polNext + 1
                 /\ polRes' = PolRes("upsertPolicy", "ok", teamId, version, id)
    /\ UNCHANGED <<now, dir, resp, schedVars, assigned, ppc>>

\* policy.softDelete(): tombstone the document.
policySoftDelete(st, id, t) ==
    [st EXCEPT ![id].isDeleted = TRUE, ![id].deletedAt = <<t>>]

softDeletePolicy(id) ==
    /\ IF id \in DOMAIN pol /\ pol[id].isDeleted = FALSE
         THEN /\ pol' = policySoftDelete(pol, id, now)
              /\ polRes' = PolRes("softDelete", "ok", pol[id].teamId, 0, id)
       ELSE /\ polRes' = PolRes("softDelete", "notfound", "none", 0, id)
            /\ UNCHANGED pol
    /\ UNCHANGED <<now, dir, resp, schedVars, polNext, assigned, ppc>>

\* EscalationPolicyModel.restoreById(id): null when no tombstone has the id.
restoreById(st, id) ==
    [st EXCEPT ![id].isDeleted = FALSE, ![id].deletedAt = NullDate]

restorePolicy(id) ==
    /\ IF id \in DOMAIN pol /\ pol[id].isDeleted = TRUE
         THEN /\ pol' = restoreById(pol, id)
              /\ polRes' = PolRes("restore", "ok", pol[id].teamId, 0, id)
       ELSE /\ polRes' = PolRes("restore", "notfound", "none", 0, id)
            /\ UNCHANGED pol
    /\ UNCHANGED <<now, dir, resp, schedVars, polNext, assigned, ppc>>

\* Request payloads.
StepsA == <<EscalationStep(1, 30, "user", "U1")>>
StepsB == <<EscalationStep(2, 10, "team", "T1"), EscalationStep(1, 30, "user", "U1")>>
StepsDup == <<EscalationStep(1, 30, "user", "U1"), EscalationStep(1, 10, "team", "T1")>>
StepLists == {StepsA, StepsB, StepsDup}
Names == {"p1", " p2 "}

UpdatesSet ==
    {<<>>}
      \cup {[policyName |-> n] : n \in Names}
      \cup {[escalationSteps |-> st] : st \in StepLists}
      \cup {[policyName |-> n, escalationSteps |-> st] : n \in Names, st \in StepLists}

\* The version numbers of the model stay within 1..MaxVersion.
VersionsBelow(st, teamId, limit) ==
    \A i \in DOMAIN st : st[i].teamId = teamId => st[i].version < limit

NextPol ==
    \/ /\ polNext <= MaxPol
       /\ \E t \in Teams, u \in UpdatesSet :
            VersionsBelow(pol, t, MaxVersion) /\ createNewVersion(t, u)
    \/ /\ polNext <= MaxPol
       /\ \E t \in Teams, v \in 1..MaxVersion :
            VersionsBelow(pol, t, MaxVersion) /\ rollbackToVersion(t, v)
    \/ \E t \in Teams, n \in Names, st \in StepLists, v \in 0..MaxVersion :
            /\ FindPolicies(pol, t) = {} => polNext <= MaxPol
            /\ VersionsBelow(pol, t, MaxVersion)
            /\ upsertPolicy(t, n, st, v)
    \/ \E id \in 1..MaxPol : softDeletePolicy(id)
    \/ \E id \in 1..MaxPol : restorePolicy(id)
    \/ \E days \in Days : policyPermanentlyDeleteOld(days)

SpecPol == Init /\ [][NextPol]_vars

\* Updates whose steps have pairwise distinct orders.
DistinctUpdates ==
    {u \in UpdatesSet : "escalationSteps" \in DOMAIN u => UniqueOrders(u.escalationSteps)}

\* createNewVersion calls with valid updates between soft-deletes, restores
\* and purges, one request at a time.
NextVersions ==
    \/ /\ polNext <= MaxPol
       /\ \E t \in Teams, u \in DistinctUpdates :
            VersionsBelow(pol, t, MaxVersion) /\ createNewVersion(t, u)
    \/ \E id \in 1..MaxPol : softDeletePolicy(id)
    \/ \E id \in 1..MaxPol : restorePolicy(id)
    \/ \E days \in Days : policyPermanentlyDeleteOld(days)

SpecVersions == Init /\ [][NextVersions]_vars

(***************************************************************************)
(* createNewVersion and rollbackToVersion calls in flight together on one  *)
(* team: one step per store call (findOne of the target version, findOne   *)
(* of the latest, latest.save(), created.save()).  The statics take no     *)
(* lock and open no transaction.                                           *)
(***************************************************************************)
FinishCall(p, status) ==
    ppc' = [ppc EXCEPT ![p] = [IdleCall EXCEPT !.pc = "done", !.status = status,
                                               !.teamId = ppc[p].teamId]]

callCreateNewVersion(p, teamId, updates) ==
    /\ ppc[p].pc = "idle"
    /\ ppc' = [ppc EXCEPT ![p] = [IdleCall EXCEPT !.pc = "latest", !.teamId = teamId,
                                                  !.updates = updates]]
    /\ UNCHANGED <<now, dir, resp, schedVars, pol, polNext, polRes, assigned>>

callRollbackToVersion(p, teamId, version) ==
    /\ ppc[p].pc = "idle"
    /\ ppc' = [ppc EXCEPT ![p] = [IdleCall EXCEPT !.pc = "target", !.teamId = teamId,
                                                  !.version = version]]
    /\ UNCHANGED <<now, dir, resp, schedVars, pol, polNext, polRes, assigned>>

\* const target = await this.findVersion(teamId, version)
callFindVersion(p) ==
    /\ ppc[p].pc = "target"
    /\ \E target \in findVersion(pol, ppc[p].teamId, ppc[p].version) :
         IF target = <<>> THEN FinishCall(p, "notfound")
         ELSE ppc' = [ppc EXCEPT ![p].pc = "latest",
                                 ![p].updates =
                                    [policyName |-> target[1].policyName,
                                     escalationSteps |-> target[1].escalationSteps]]
    /\ UNCHANGED <<now, dir, resp, schedVars, pol, polNext, polRes, assigned>>

\* const latest = await this.findOne({teamId, isLatest: true})
callFindLatest(p) ==
    /\ ppc[p].pc = "latest"
    /\ \E latest \in findLatestByTeam(pol, ppc[p].teamId) :
         ppc' = [ppc EXCEPT ![p].latest = latest,
                            ![p].pc = IF latest = <<>> THEN "insert" ELSE "flip"]
    /\ UNCHANGED <<now, dir, resp, schedVars, pol, polNext, polRes, assigned>>

\* latest.isLatest = false; await latest.save()
callSaveLatest(p) ==
    /\ ppc[p].pc = "flip"
    /\ LET f == FlipLatest(pol, ppc[p].latest[1])
       IN /\ pol' = f.st
          /\ IF ~f.ok THEN FinishCall(p, "invalid")
             ELSE ppc' = [ppc EXCEPT ![p].latest = <<f.doc>>, ![p].pc = "insert"]
    /\ UNCHANGED <<now, dir, resp, schedVars, polNext, polRes, assigned>>

\* const created = new this(payload); await created.save()
callSaveCreated(p) ==
    /\ ppc[p].pc = "insert"
    /\ LET r == InsertPolicy(pol, Payload(polNext, ppc[p].teamId, ppc[p].latest,
                                          ppc[p].updates))
       IN /\ pol' = r.st
          /\ polNext' = IF r.status = "ok" THEN polNext + 1 ELSE polNext
          /\ FinishCall(p, r.status)
    /\ UNCHANGED <<now, dir, resp, schedVars, polRes, assigned>>

CallUpdates == {<<>>, [escalationSteps |-> StepsA], [policyName |-> "p1"]}

\* The team's policy is first written through PUT /escalation-policies/:teamId,
\* then the two calls run interleaved.
NextCalls ==
    \/ /\ \A p \in Procs : ppc[p].pc = "idle"
       /\ \E n \in Names, st \in StepLists, v \in 0..MaxVersion :
            VersionsBelow(pol, "T1", MaxVersion) /\ upsertPolicy("T1", n, st, v)
    \/ \E p \in Procs, u \in CallUpdates : callCreateNewVersion(p, "T1", u)
    \/ \E p \in Procs, v \in 1..MaxVersion : callRollbackToVersion(p, "T1", v)
    \/ \E p \in Procs : callFindVersion(p)
    \/ \E p \in Procs : callFindLatest(p)
    \/ \E p \in Procs : callSaveLatest(p)
    \/ \E p \in Procs : callSaveCreated(p)

SpecCalls == Init /\ [][NextCalls]_vars

(***************************************************************************)
(* Read requests: the current on-call lookups and the responsibility       *)
(* resolver of the internal controller.  A read writes resp only.          *)
(***************************************************************************)
\* The same filter without isDeleted: false.
CurrentIdsAny(st, teamId, date) ==
    {i \in DOMAIN st :
        /\ st[i].teamId = teamId
        /\ st[i].startTime <= date
        /\ st[i].endTime >= date}

\* {teamId, startTime: {$lte: date}, endTime: {$gte: date}} on non-deleted documents.
CurrentIds(st, teamId, date) ==
    {i \in DOMAIN st :
        /\ st[i].teamId = teamId
        /\ st[i].isDeleted = FALSE
        /\ st[i].startTime <= date
        /\ st[i].endTime >= date}

\* .sort({priorityLevel: 1}): the documents a sorted findOne may return first.
LowestPriority(st, ids) ==
    {i \in ids : \A j \in ids : st[i].priorityLevel <= st[j].priorityLevel}

\* statics.findCurrentSchedule(teamId, date): a findOne without sort.
findCurrentSchedule(teamId, date) ==
    /\ \E found \in OneOf(sched, CurrentIds(sched, teamId, date)) :
         resp' = [op |-> "findCurrentSchedule", teamId |-> teamId, at |-> date,
                  status |-> "ok", found |-> found]
    /\ UNCHANGED <<now, dir, schedVars, polVars>>

\* GET /on-call-schedules/current: findOne sorted by priorityLevel, 404 on none.
getCurrentOnCall(teamId) ==
    /\ \E found \in OneOf(sched, LowestPriority(sched, CurrentIds(sched, teamId, now))) :
         resp' = [op |-> "getCurrentOnCall", teamId |-> teamId, at |-> now,
                  status |-> IF found = <<>> THEN "notfound" ELSE "ok", found |-> found]
    /\ UNCHANGED <<now, dir, schedVars, polVars>>

\* {teamId, isDeleted: false, endTime: {$gte: new Date()}}
ActiveIds(st, teamId, t) ==
    {i \in DOMAIN st : st[i].teamId = teamId /\ st[i].isDeleted = FALSE /\ st[i].endTime >= t}

\* .sort({priorityLevel: 1, startTime: 1})
SortedActive(st, ord) ==
    \A i, j \in DOMAIN ord : i < j =>
        \/ st[ord[i]].priorityLevel < st[ord[j]].priorityLevel
        \/ /\ st[ord[i]].priorityLevel = st[ord[j]].priorityLevel
           /\ st[ord[i]].startTime <= st[ord[j]].startTime

\* statics.findActiveByTeam(teamId)
findActiveByTeam(teamId) ==
    /\ \E ord \in Perms(ActiveIds(sched, teamId, now)) :
         /\ SortedActive(sched, ord)
         /\ resp' = [op |-> "findActiveByTeam", teamId |-> teamId, at |-> now,
                     status |-> "ok", found |-> [k \in DOMAIN ord |-> sched[ord[k]]]]
    /\ UNCHANGED <<now, dir, schedVars, polVars>>

\* A call of statics.findLatestByTeam(teamId).
readLatestByTeam(teamId) ==
    /\ \E found \in findLatestByTeam(pol, teamId) :
         resp' = [op |-> "findLatestByTeam", teamId |-> teamId, version |-> 0,
                  status |-> "ok", found |-> found]
    /\ UNCHANGED <<now, dir, schedVars, polVars>>

\* A call of statics.findVersion(teamId, version).
readVersion(teamId, version) ==
    /\ \E found \in findVersion(pol, teamId, version) :
         resp' = [op |-> "findVersion", teamId |-> teamId, version |-> version,
                  status |-> "ok", found |-> found]
    /\ UNCHANGED <<now, dir, schedVars, polVars>>

\* GET /escalation-policies?teamId=..[&version=..]: findOne({teamId[, version]}),
\* 404 on none; version 0 stands for a request without version.
getPolicyForTeam(teamId, version) ==
    /\ \E found \in OneOf(pol, {i \in FindPolicies(pol, teamId) :
                                  version # 0 => pol[i].version = version}) :
         resp' = [op |-> "getPolicyForTeam", teamId |-> teamId, version |-> version,
                  status |-> IF found = <<>> THEN "notfound" ELSE "ok", found |-> found]
    /\ UNCHANGED <<now, dir, schedVars, polVars>>

DEFAULT_TIMEOUT_MINUTES == 15  \* escalationSteps?.[0]?.timeoutMinutes || 15

ChainEntry(order, type, timeoutMinutes, target) ==
    [order |-> order, type |-> type, timeoutMinutes |-> timeoutMinutes, target |-> target]

\* TargetModel.findById(step.escalationTargetId) || {_id, missing: true}
ResolveTarget(d, step) ==
    LET known == IF step.escalationType = "user" THEN d.users ELSE d.teams
    IN [id |-> step.escalationTargetId, missing |-> step.escalationTargetId \notin known]

\* One entry per stored step, in the order of the stored array.
StepEntries(d, steps) ==
    [k \in 1..Len(steps) |->
        ChainEntry(steps[k].order, steps[k].escalationType, steps[k].timeoutMinutes,
                   ResolveTarget(d, steps[k]))]

\* escalationPolicy?.escalationSteps?.[0]?.timeoutMinutes || 15
PrimaryTimeout(policy) ==
    IF policy # <<>> /\ policy[1].escalationSteps # <<>>
         /\ policy[1].escalationSteps[1].timeoutMinutes # 0
      THEN policy[1].escalationSteps[1].timeoutMinutes
    ELSE DEFAULT_TIMEOUT_MINUTES

\* The chain built from the fetched schedule (userId populated: null when the
\* user does not exist) and the fetched policy.
BuildChain(d, onCall, policy) ==
    (IF onCall # <<>> /\ onCall[1].userId \in d.users
       THEN <<ChainEntry(0, "user", PrimaryTimeout(policy),
                         [id |-> onCall[1].userId, missing |-> FALSE])>>
     ELSE <<>>)
    \o (IF policy # <<>> THEN StepEntries(d, policy[1].escalationSteps) ELSE <<>>)

Response(serviceName, status, teamId, chain) ==
    [op |-> "resolve", service |-> serviceName, status |-> status, teamId |-> teamId,
     chain |-> chain]

\* pre(/^find/) of the Service schema adds isDeleted: false.
FindServices(d) == {n \in DOMAIN d.services : d.services[n].isDeleted = FALSE}

\* A resolver that ignores whether the populated team exists.
ServiceTeamUnpopulated(d, serviceName) ==
    IF serviceName \in FindServices(d)
      THEN <<d.services[serviceName].teamId>>
    ELSE <<>>

\* ServiceModel.findOne({serviceName}).populate("teamId"): the team of the
\* service, nothing when the service or its team document does not exist.
ServiceTeam(d, serviceName) ==
    IF serviceName \in FindServices(d) /\ d.services[serviceName].teamId \in d.teams
      THEN <<d.services[serviceName].teamId>>
    ELSE <<>>

\* A resolver that saves the policy it fetched, its steps sorted by the save hook.
getResponsibilityAndSave(serviceName) ==
    /\ ServiceTeam(dir, serviceName) # <<>>
    /\ LET teamId == ServiceTeam(dir, serviceName)[1]
       IN \E onCall \in OneOf(sched, LowestPriority(sched, CurrentIds(sched, teamId, now))),
             policy \in findLatestByTeam(pol, teamId) :
            /\ resp' = Response(serviceName, "ok", teamId, BuildChain(dir, onCall, policy))
            /\ pol' = IF policy = <<>> THEN pol
                      ELSE [pol EXCEPT ![policy[1].id].escalationSteps = SortSteps(@)]
    /\ UNCHANGED <<now, dir, schedVars, polNext, polRes, assigned, ppc>>

\* GET /internal/api/v1/responsibility?service=<serviceName> with a valid secret.
getResponsibilityForService(serviceName) ==
    /\ IF serviceName = ""
         THEN resp' = Response(serviceName, "invalid", "none", <<>>)
       ELSE IF ServiceTeam(dir, serviceName) = <<>>
         THEN resp' = Response(serviceName, "notfound", "none", <<>>)
       ELSE LET teamId == ServiceTeam(dir, serviceName)[1]
            IN \E onCall \in OneOf(sched, LowestPriority(sched, CurrentIds(sched, teamId, now))),
                  policy \in findLatestByTeam(pol, teamId) :
                 resp' = Response(serviceName, "ok", teamId, BuildChain(dir, onCall, policy))
    /\ UNCHANGED <<now, dir, schedVars, polVars>>

ServiceNames == {"", "billing", "orphan", "retired", "ghost"}

Directories == {Directory(t, u) : t \in {{"T1", "T2"}, {"T1"}, {}}, u \in {{"U1"}, {}}}

InitResolve ==
    /\ now = 0
    /\ sched = <<>>
    /\ schedNext = 1
    /\ schedRes = Res("none", "none")
    /\ spc = [p \in Procs |-> IdleCreate]
    /\ pol = <<>>
    /\ polNext = 1
    /\ polRes = PolRes("none", "none", "none", 0, 0)
    /\ assigned = [t \in Teams |-> 0]
    /\ ppc = [p \in Procs |-> IdleCall]
    /\ dir \in Directories
    /\ resp = NoResponse

\* Direct saves and soft-deletes of one team at any level, read by the
\* current on-call lookups.
NextCurrent ==
    \/ /\ schedNext <= MaxSched
       /\ \E p \in Priorities, s, e \in TimePoints : \E ord \in Perms(DOMAIN sched) :
            saveSchedule("T1", "U1", p, s, e, ord, FALSE)
    \/ \E id \in 1..MaxSched : softDeleteOnCallSchedule(id)
    \/ \E t \in Teams, date \in TimePoints : findCurrentSchedule(t, date)
    \/ \E t \in Teams : getCurrentOnCall(t)

SpecCurrent == Init /\ [][NextCurrent]_vars

\* Writes to the schedules and the policy of the team of "billing", read by
\* the resolver under every directory.
NextResolve ==
    \/ /\ schedNext <= MaxSched
       /\ \E p \in Priorities : \E ord \in Perms(DOMAIN sched) :
            saveSchedule("T1", "U1", p, 0, 2 * GraceMs, ord, FALSE)
    \/ \E st \in StepLists :
            /\ FindPolicies(pol, "T1") = {} => polNext <= MaxPol
            /\ VersionsBelow(pol, "T1", MaxVersion)
            /\ upsertPolicy("T1", "p1", st, 0)
    \/ /\ polNext <= MaxPol
       /\ VersionsBelow(pol, "T1", MaxVersion)
       /\ createNewVersion("T1", <<>>)
    \/ \E n \in ServiceNames : getResponsibilityForService(n)

SpecResolve == InitResolve /\ [][NextResolve]_vars

\* Requests to the external creation entry point and soft-deletes.
NextEntry ==
    \/ /\ schedNext <= MaxSched
       /\ \E t \in Teams, u \in Users, p \in Priorities, s, e \in TimePoints :
            \E ord \in Perms(DOMAIN sched) : createOnCallSchedule(t, u, p, s, e, ord, FALSE)
    \/ \E id \in 1..MaxSched : softDeleteOnCallSchedule(id)

SpecEntry == Init /\ [][NextEntry]_vars

\* Request times on a minute scale, between the multiples of the margin.
MinutePoints == {k * MS_PER_MINUTE : k \in {0, 5, 6, 12, 16}}

\* Creations through the entry point and PATCHes of startTime on one team
\* and level, one request at a time.
NextPatch ==
    \/ /\ schedNext <= MaxSched
       /\ \E s, e \in MinutePoints : \E ord \in Perms(DOMAIN sched) :
            createOnCallSchedule("T1", "U1", 1, s, e, ord, FALSE)
    \/ \E id \in 1..MaxSched, s \in MinutePoints :
            updateOnCallSchedule(id, [startTime |-> s])

SpecPatch == Init /\ [][NextPatch]_vars

\* schedule.overlapsWith(otherStart, otherEnd, graceMinutes) on a loaded document.
callOverlapsWith(id, otherStart, otherEnd, graceMinutes) ==
    /\ id \in DOMAIN sched
    /\ resp' = [op |-> "overlapsWith", id |-> id, otherStart |-> otherStart,
                otherEnd |-> otherEnd, graceMinutes |-> graceMinutes,
                result |-> overlapsWith(sched[id], otherStart, otherEnd, graceMinutes)]
    /\ UNCHANGED <<now, dir, schedVars, polVars>>

\* graceMinutes = 5 unless the caller passes another margin.
GraceMinutes == {0, DEFAULT_GRACE_MINUTES}

\* Saved schedules of one team and level, each asked about every interval.
NextOverlap ==
    \/ /\ schedNext <= MaxOverlap
       /\ \E s, e \in TimePoints : \E ord \in Perms(DOMAIN sched) :
            saveSchedule("T1", "U1", 1, s, e, ord, FALSE)
    \/ \E id \in 1..MaxOverlap, otherStart, otherEnd \in TimePoints, g \in GraceMinutes :
            callOverlapsWith(id, otherStart, otherEnd, g)

SpecOverlap == Init /\ [][NextOverlap]_vars

\* Every read of the schedule, policy and service stores next to the writes
\* and soft-deletes of one team.
NextReads ==
    \/ /\ schedNext <= MaxSched
       /\ \E ord \in Perms(DOMAIN sched) :
            saveSchedule("T1", "U1", 2, 0, 2 * GraceMs, ord, FALSE)
    \/ /\ schedNext <= MaxSched
       /\ \E ord \in Perms(DOMAIN sched) :
            createOnCallSchedule("T1", "U1", 1, 0, 2 * GraceMs, ord, FALSE)
    \/ \E id \in 1..MaxSched : softDeleteOnCallSchedule(id)
    \/ findCurrentSchedule("T1", now)
    \/ getCurrentOnCall("T1")
    \/ findActiveByTeam("T1")
    \/ /\ polNext <= MaxPol
       /\ VersionsBelow(pol, "T1", MaxVersion)
       /\ createNewVersion("T1", [escalationSteps |-> StepsA])
    \/ \E id \in 1..MaxPol : softDeletePolicy(id)
    \/ readLatestByTeam("T1")
    \/ \E v \in 1..MaxPol : readVersion("T1", v)
    \/ \E v \in 0..1 : getPolicyForTeam("T1", v)
    \/ \E n \in {"billing", "retired"} : getResponsibilityForService(n)

SpecReads == Init /\ [][NextReads]_vars

\* new Date() in a later call: the wall clock moves on by half a day.
HalfDay == MS_PER_DAY \div 2

Tick ==
    /\ now < MaxTick * HalfDay
    /\ now' = now + HalfDay
    /\ UNCHANGED <<dir, resp, schedVars, polVars>>

\* Schedules and policies of one team written, tombstoned and purged while
\* the clock advances.
NextPurge ==
    \/ /\ schedNext <= MaxSched
       /\ \E p \in Priorities : \E ord \in Perms(DOMAIN sched) :
            saveSchedule("T1", "U1", p, 0, 2 * GraceMs, ord, FALSE)
    \/ \E id \in 1..MaxSched : softDeleteOnCallSchedule(id)
    \/ \E days \in Days : permanentlyDeleteOld(days)
    \/ /\ polNext <= MaxPurge
       /\ createNewVersion("T1", <<>>)
    \/ \E id \in 1..MaxPurge : softDeletePolicy(id)
    \/ \E days \in Days : policyPermanentlyDeleteOld(days)
    \/ Tick

SpecPurge == Init /\ [][NextPurge]_vars

(***************************************************************************)
(* Properties of the schedule store.                                       *)
(***************************************************************************)
OverlapOf(a, b) == Min(a.endTime, b.endTime) - Max(a.startTime, b.startTime)

GraceViolations(st) ==
    {pair \in (DOMAIN st) \X (DOMAIN st) :
        /\ pair[1] < pair[2]
        /\ st[pair[1]].isDeleted = FALSE /\ st[pair[2]].isDeleted = FALSE
        /\ st[pair[1]].teamId = st[pair[2]].teamId
        /\ st[pair[1]].priorityLevel = st[pair[2]].priorityLevel
        /\ OverlapOf(st[pair[1]], st[pair[2]]) > GraceMs}

\* C1: after any sequence of schedule writes by a single writer, no two
\* non-deleted schedules of the same team and priority level overlap by more
\* than the grace margin.
C1_NoOverlapBeyondGrace == GraceViolations(sched) = {}

\* C3: a schedule save that fails leaves every schedule as it was before the
\* save (no conflict stays truncated or tombstoned, the new record is absent).
C3_FailedSaveChangesNothing ==
    [][(schedRes'.op = "save" /\ schedRes'.status = "error") => sched' = sched]_vars

\* C5: once two interleaved creations of one team and priority level have
\* both completed, no two non-deleted schedules of it overlap by more than
\* the grace margin.
C5_NoOverlapAfterConcurrentCreates ==
    (\A p \in Procs : spc[p].pc = "done") => GraceViolations(sched) = {}

\* The outcome r of one loop iteration on conflict c for the record doc, as
\* the rules prescribe it.
StepAsRuled(st, doc, c, r, t) ==
    LET overlap == Min(c.endTime, doc.endTime) - Max(c.startTime, doc.startTime)
    IN IF overlap <= GraceMs
         THEN r.ok /\ r.st = st /\ r.doc = doc
       ELSE IF doc.startTime < c.endTime /\ c.endTime < doc.endTime
         THEN /\ r.ok /\ r.doc = doc
              /\ r.st = [st EXCEPT ![c.id].endTime = doc.startTime - 1]
       ELSE IF c.startTime < doc.startTime /\ doc.startTime < c.endTime
         THEN /\ r.ok /\ r.st = st
              /\ r.doc = [doc EXCEPT !.startTime = c.endTime + 1]
       ELSE IF c.startTime < doc.startTime
         THEN /\ r.ok /\ r.doc = doc
              /\ r.st = [st EXCEPT ![c.id].isDeleted = TRUE, ![c.id].deletedAt = <<t>>]
       ELSE /\ r.ok /\ r.st = st
            /\ r.doc = [doc EXCEPT !.startTime = c.endTime + 1]

RECURSIVE RulesFollowed(_, _, _, _, _)
RulesFollowed(st, doc, conflicts, ord, t) ==
    \/ conflicts = <<>>
    \/ LET r == ResolveOne(st, doc, Head(conflicts), ord, t)
       IN /\ StepAsRuled(st, doc, Head(conflicts), r, t)
          /\ r.ok => RulesFollowed(r.st, r.doc, Tail(conflicts), ord, t)

\* C27: for each enumerated conflict C against the record N being saved: if
\* the overlap duration min(ends) - max(starts) is at most the grace margin
\* nothing is changed; otherwise exactly one rule is applied, the first that
\* matches: (1) N.start < C.end < N.end: C.end := N.start - 1ms and C is
\* saved; (2) C.start < N.start < C.end: N.start := C.end + 1ms; (3)
\* C.start < N.start: C is soft-deleted; (4) otherwise N.start := C.end + 1ms.
C27_RulePerConflict ==
    \A ord \in Perms(DOMAIN sched) : \A s, e \in TimePoints :
        LET doc == NewSchedule(schedNext, "T1", "U1", 1, s, e)
        IN EndTimeValidator(doc) =>
              RulesFollowed(sched, doc, FindConflicts(sched, doc, ord), ord, now)

RECURSIVE OnlyOverlappingChanged(_, _, _, _, _)
OnlyOverlappingChanged(st, doc, conflicts, ord, t) ==
    \/ conflicts = <<>>
    \/ LET c == Head(conflicts)
           r == ResolveOne(st, doc, c, ord, t)
       IN /\ (c.id \in DOMAIN st /\ r.st[c.id] # st[c.id]) =>
                Min(c.endTime, doc.endTime) - Max(c.startTime, doc.startTime) > GraceMs
          /\ r.ok => OnlyOverlappingChanged(r.st, r.doc, Tail(conflicts), ord, t)

\* C28: the auto-resolution truncates or soft-deletes an existing schedule
\* only if, at the moment that schedule is examined, its interval intersects
\* the saved record's current interval with a positive overlap longer than
\* the grace margin; a schedule lying entirely before or after the saved
\* record's current interval is never changed.
C28_OnlyOverlappingChanged ==
    \A ord \in Perms(DOMAIN sched) : \A s, e \in TimePoints :
        LET doc == NewSchedule(schedNext, "T1", "U1", 1, s, e)
        IN EndTimeValidator(doc) =>
              OnlyOverlappingChanged(sched, doc, FindConflicts(sched, doc, ord), ord, now)

\* C29: in a single-writer execution, a create through the external entry
\* point that passes the reject-mode overlap check leaves every existing
\* schedule unchanged and persists the new record with exactly the requested
\* startTime and endTime.
C29_AcceptedCreateChangesNothing ==
    [][\A ord \in Perms(DOMAIN sched) : \A s, e \in MinutePoints :
          (/\ s < e
           /\ \A i \in DOMAIN sched :
                 (sched[i].isDeleted = FALSE /\ sched[i].teamId = "T1") =>
                    ~(sched[i].startTime <= e /\ sched[i].endTime >= s)
           /\ createOnCallSchedule("T1", "U1", 1, s, e, ord, FALSE)) =>
             /\ \A i \in DOMAIN sched : i \in DOMAIN sched' /\ sched'[i] = sched[i]
             /\ schedNext \in DOMAIN sched'
             /\ sched'[schedNext].startTime = s
             /\ sched'[schedNext].endTime = e]_vars

\* C11: when a record N is saved with auto-resolution and an existing
\* non-deleted schedule C of the same team and level has
\* N.start < C.end < N.end with an overlap beyond the grace margin, C is
\* persisted with endTime = N.start - 1ms and its startTime unchanged, and N
\* is persisted with its requested startTime and endTime.
C11_Rule1TruncatesConflict ==
    [][\A s, e \in TimePoints : \A ord \in Perms(DOMAIN sched) :
          saveSchedule("T1", "U1", 1, s, e, ord, FALSE) =>
             \A c \in DOMAIN sched :
                (/\ sched[c].isDeleted = FALSE
                 /\ sched[c].teamId = "T1" /\ sched[c].priorityLevel = 1
                 /\ s < sched[c].endTime /\ sched[c].endTime < e
                 /\ Min(sched[c].endTime, e) - Max(sched[c].startTime, s) > GraceMs) =>
                   /\ sched'[c].endTime = s - 1
                   /\ sched'[c].startTime = sched[c].startTime
                   /\ schedNext \in DOMAIN sched'
                   /\ sched'[schedNext].startTime = s
                   /\ sched'[schedNext].endTime = e]_vars

\* C12: the state a save persists (the conflicts truncated or tombstoned and
\* the new record's final startTime) is determined by the prior schedules
\* and the new record, whatever the order in which the store returns the
\* conflicts.
C12_ResolutionOrderIndependent ==
    \A s, e \in TimePoints : \A ord1, ord2 \in Perms(DOMAIN sched) :
        LET doc == NewSchedule(schedNext, "T1", "U1", 1, s, e)
        IN SaveNew(sched, doc, ord1, now, FALSE) = SaveNew(sched, doc, ord2, now, FALSE)

\* C16: findCurrent(teamId, at) returns a non-deleted schedule of the team
\* with startTime <= at <= endTime, one with the smallest priorityLevel among
\* them, and returns none exactly when no such schedule exists.
C16_FindCurrentLowestPriority ==
    [][(resp' # resp /\ resp'.op \in {"findCurrentSchedule", "getCurrentOnCall"}) =>
          LET ids == CurrentIds(sched, resp'.teamId, resp'.at)
          IN /\ (resp'.found = <<>>) <=> (ids = {})
             /\ resp'.found # <<>> =>
                   /\ resp'.found[1].id \in ids
                   /\ \A j \in ids :
                         resp'.found[1].priorityLevel <= sched[j].priorityLevel]_vars

\* C17: a schedule creation with endTime <= startTime is rejected as invalid
\* before any persistence call; no schedule is created or changed.
C17_EmptyIntervalRejected ==
    [][\A ord \in Perms(DOMAIN sched) :
          \A t \in Teams, u \in Users, p \in Priorities, s, e \in TimePoints :
             (e <= s /\ createOnCallSchedule(t, u, p, s, e, ord, FALSE)) =>
                /\ schedRes' = Res("create", "invalid")
                /\ sched' = sched
                /\ schedNext' = schedNext]_vars

C17_Witness == schedRes = Res("create", "invalid") /\ sched # <<>>

\* C18: every persisted non-deleted schedule has endTime > startTime after
\* any sequence of creates, updates and auto-resolutions.
C18_EndAfterStart ==
    \A i \in DOMAIN sched : sched[i].isDeleted = FALSE => sched[i].endTime > sched[i].startTime

\* C19: the creation entry point rejects a create with Conflict exactly when
\* a non-deleted schedule of the same team and the same priorityLevel
\* overlaps the requested interval; a schedule of another level never
\* causes the rejection.
C19_ConflictOnlyWithinLevel ==
    [][\A ord \in Perms(DOMAIN sched) :
          \A t \in Teams, u \in Users, p \in Priorities, s, e \in TimePoints :
             (s < e /\ createOnCallSchedule(t, u, p, s, e, ord, FALSE)) =>
                (schedRes'.status = "conflict" <=>
                   \E i \in OverlapQuery(sched, 0, t, s, e) : sched[i].priorityLevel = p)]_vars

(***************************************************************************)
(* Properties of the responsibility resolver.                              *)
(***************************************************************************)
ResolveStep == resp' # resp /\ resp'.op = "resolve"

\* C13: for a service whose team is resolvable the chain is the entry of the
\* current on-call user (order 0, timeout of the policy's first step or 15),
\* if a current schedule (of an existing user) exists, then one entry per
\* step of the latest non-deleted policy in ascending step order.
C13_ChainInStepOrder ==
    [][(/\ ResolveStep /\ resp'.status = "ok"
        /\ \A i \in CurrentIds(sched, resp'.teamId, now) : sched[i].userId \in dir.users) =>
          LET cur == LowestPriority(sched, CurrentIds(sched, resp'.teamId, now))
              lat == LatestIds(pol, resp'.teamId)
          IN \E c \in (IF cur = {} THEN {0} ELSE cur), l \in (IF lat = {} THEN {0} ELSE lat) :
               LET steps == IF l = 0 THEN <<>> ELSE SortSteps(pol[l].escalationSteps)
                   timeout == IF steps # <<>> THEN steps[1].timeoutMinutes
                              ELSE DEFAULT_TIMEOUT_MINUTES
                   head == IF c = 0 THEN <<>>
                           ELSE <<ChainEntry(0, "user", timeout,
                                             [id |-> sched[c].userId, missing |-> FALSE])>>
               IN resp'.chain = head \o StepEntries(dir, steps)]_vars

C15_ResolverReadOnly ==
    [][ResolveStep => UNCHANGED <<sched, schedNext, pol, polNext, dir>>]_vars

C15_Witness ==
    /\ resp.op = "resolve" /\ resp.status = "ok"
    /\ sched # <<>> /\ pol # <<>> /\ Len(resp.chain) > 1

(***************************************************************************)
(* Properties of the policy store.                                         *)
(***************************************************************************)
PoliciesOf(st, teamId) == {i \in DOMAIN st : st[i].teamId = teamId}

\* C2: after any sequence of policy requests by a single writer every team
\* has at most one policy record with isLatest = true and isDeleted = false.
C2_AtMostOneLatest == \A t \in Teams : Cardinality(LatestIds(pol, t)) <= 1

\* C6: once every interleaved createNewVersion and rollbackToVersion call on
\* a team has completed, the team has at most one record with isLatest = true
\* and isDeleted = false.
C6_AtMostOneLatestAfterConcurrentCalls ==
    (\A p \in Procs : ppc[p].pc = "done") => Cardinality(LatestIds(pol, "T1")) <= 1

\* C26: two createNewVersion calls for the same team never both hold the
\* same record as the current latest: the read-latest, flip-latest,
\* insert-new sequence of one call does not interleave with that of another
\* call for the same team.
C26_NoSharedLatest ==
    \A p, q \in Procs :
        (/\ p # q
         /\ ppc[p].pc \in {"flip", "insert"} /\ ppc[q].pc \in {"flip", "insert"}
         /\ ppc[p].teamId = ppc[q].teamId
         /\ ppc[p].latest # <<>> /\ ppc[q].latest # <<>>) =>
            ppc[p].latest[1].id # ppc[q].latest[1].id

\* C20: a direct update (findOneAndUpdate) that targets a policy record with
\* isLatest = false is rejected with an error and changes no record.
C20_NonLatestUpdateRejected ==
    [][(/\ polRes'.op = "upsertPolicy"
        /\ polRes'.id \in DOMAIN pol
        /\ pol[polRes'.id].isLatest = FALSE) =>
          /\ polRes'.status \in {"error", "conflict"}
          /\ pol' = pol]_vars

C20_Witness ==
    /\ polRes.op = "upsertPolicy" /\ polRes.status = "error"
    /\ polRes.id \in DOMAIN pol /\ pol[polRes.id].isLatest = FALSE

\* Ascending step orders, possibly with repetitions.
AscendingOrders(steps) ==
    \A i, j \in 1..Len(steps) : i < j => steps[i].order <= steps[j].order

\* C21: in every persisted policy record the escalation steps have pairwise
\* distinct order values and are stored in ascending order, after any
\* sequence of createNewVersion, rollbackToVersion and upsertPolicy calls.
C21_StepsDistinctAndSorted ==
    \A i \in DOMAIN pol :
        UniqueOrders(pol[i].escalationSteps) /\ AscendingOrders(pol[i].escalationSteps)

C25_OverlapsWithStrict ==
    [][(resp' # resp /\ resp'.op = "overlapsWith") =>
          LET start == sched[resp'.id].startTime
              end == sched[resp'.id].endTime
              grace == resp'.graceMinutes * 60 * 1000
              touches == \/ start - grace = resp'.otherEnd
                         \/ end + grace = resp'.otherStart
          IN /\ resp'.result = TRUE <=>
                   (start - grace < resp'.otherEnd /\ end + grace > resp'.otherStart)
             /\ touches => resp'.result = FALSE
             /\ sched' = sched]_vars

\* The expanded schedule ends exactly where the other interval starts.
C25_Witness ==
    /\ resp.op = "overlapsWith" /\ resp.result = FALSE /\ resp.id \in DOMAIN sched
    /\ resp.graceMinutes = DEFAULT_GRACE_MINUTES
    /\ sched[resp.id].endTime + GraceMs = resp.otherStart
    /\ resp.otherStart < resp.otherEnd

(***************************************************************************)
(* Properties of the purges.                                               *)
(***************************************************************************)
\* C22 as stated: permanentlyDeleteOld(days) (schedules or policies) called
\* twice in succession with no soft-delete in between returns 0 from the
\* second call and leaves the store unchanged.
C22_SecondPurgeRemovesNothing ==
    [][\A days \in Days :
          /\ (schedRes.op = "purge" /\ schedRes.days = days /\ permanentlyDeleteOld(days)) =>
                (schedRes'.count = 0 /\ sched' = sched)
          /\ (polRes.op = "purge" /\ polRes.days = days /\ policyPermanentlyDeleteOld(days)) =>
                (polRes'.count = 0 /\ pol' = pol)]_vars

\* C22 amended: permanentlyDeleteOld(days) (schedules or policies) called
\* twice at the same clock reading with no soft-delete in between returns 0
\* from the second call and leaves the store unchanged.
C22_SecondPurgeAtSameTimeRemovesNothing ==
    [][\A days \in Days :
          /\ (/\ schedRes.op = "purge" /\ schedRes.days = days /\ schedRes.at = now
              /\ permanentlyDeleteOld(days)) =>
                (schedRes'.count = 0 /\ sched' = sched)
          /\ (/\ polRes.op = "purge" /\ polRes.days = days /\ polRes.at = now
              /\ policyPermanentlyDeleteOld(days)) =>
                (polRes'.count = 0 /\ pol' = pol)]_vars

\* A first purge removed a tombstone and left another record behind.
C22_Witness ==
    /\ schedRes.op = "purge" /\ schedRes.count > 0 /\ schedRes.at = now
    /\ sched # <<>>

\* C23: permanentlyDeleteOld(days) removes exactly the records with
\* isDeleted = true and deletedAt <= now - days, returns their number, and
\* never removes or changes a non-deleted record or a tombstone younger than
\* the retention window.
C23_PurgeRemovesExactlyExpired ==
    [][\A days \in Days :
          /\ permanentlyDeleteOld(days) =>
                LET gone == {i \in DOMAIN sched :
                               /\ sched[i].isDeleted = TRUE
                               /\ sched[i].deletedAt # NullDate
                               /\ sched[i].deletedAt[1] <= now - days * MS_PER_DAY}
                IN /\ DOMAIN sched' = (DOMAIN sched) \ gone
                   /\ schedRes'.count = Cardinality(gone)
                   /\ \A i \in DOMAIN sched' : sched'[i] = sched[i]
          /\ policyPermanentlyDeleteOld(days) =>
                LET gone == {i \in DOMAIN pol :
                               /\ pol[i].isDeleted = TRUE
                               /\ pol[i].deletedAt # NullDate
                               /\ pol[i].deletedAt[1] <= now - days * MS_PER_DAY}
                IN /\ DOMAIN pol' = (DOMAIN pol) \ gone
                   /\ polRes'.count = Cardinality(gone)
                   /\ \A i \in DOMAIN pol' : pol'[i] = pol[i]]_vars

\* A purge removed an old tombstone and kept a younger one and a live record.
C23_Witness ==
    /\ polRes.op = "purge" /\ polRes.count > 0
    /\ \E i, j \in DOMAIN sched : sched[i].isDeleted = TRUE /\ sched[j].isDeleted = FALSE
    /\ schedRes.op = "purge" /\ schedRes.count = 0 /\ schedRes.days = 1

\* C4: a createNewVersion rejected for a duplicate step order leaves every
\* persisted policy record as it was.
C4_RejectedVersionChangesNothing ==
    [][(polRes'.op = "createNewVersion" /\ polRes'.status = "invalid") => pol' = pol]_vars

\* C7: a persisted policy record never changes its policyName, its
\* escalationSteps or its version.
C7_HistoryImmutable ==
    [][\A i \in (DOMAIN pol) \cap (DOMAIN pol') :
          /\ pol'[i].policyName = pol[i].policyName
          /\ pol'[i].escalationSteps = pol[i].escalationSteps
          /\ pol'[i].version = pol[i].version]_vars

\* C8: after a successful rollbackToVersion(T, v), findLatest(T) returns a
\* record with the name and steps of version v and with a version greater
\* than that of every other record of T.
C8_RollbackYieldsNewestCopy ==
    [][(polRes'.op = "rollbackToVersion" /\ polRes'.status = "ok") =>
          \A found \in findLatestByTeam(pol', polRes'.teamId) :
             /\ found # <<>>
             /\ \A i \in PoliciesOf(pol', polRes'.teamId) :
                  /\ pol'[i].version = polRes'.version =>
                        /\ found[1].policyName = pol'[i].policyName
                        /\ found[1].escalationSteps = pol'[i].escalationSteps
                  /\ i # found[1].id => found[1].version > pol'[i].version]_vars

\* The steps createNewVersion computes from updates and the previous latest.
ComputedSteps(st, teamId, updates) ==
    IF "escalationSteps" \in DOMAIN updates THEN updates.escalationSteps
    ELSE IF LatestIds(st, teamId) = {} THEN <<>>
    ELSE st[CHOOSE i \in LatestIds(st, teamId) : TRUE].escalationSteps

\* C9: createNewVersion(T, updates) with distinct step orders, on a team
\* whose latest record has version n, creates version n + 1 with isLatest
\* and clears isLatest on version n; on a team without policy it creates
\* version 1; name and steps absent from updates are those of the previous
\* latest.
C9_CreateNewVersionPost ==
    [][\A t \in Teams, u \in UpdatesSet :
          (createNewVersion(t, u) /\ UniqueOrders(ComputedSteps(pol, t, u))) =>
             /\ PoliciesOf(pol, t) = {} =>
                  /\ polRes'.status = "ok"
                  /\ pol'[polNext].version = 1
                  /\ pol'[polNext].isLatest = TRUE
             /\ \A l \in LatestIds(pol, t) : LatestIds(pol, t) = {l} =>
                  /\ polRes'.status = "ok"
                  /\ pol'[polNext].version = pol[l].version + 1
                  /\ pol'[polNext].isLatest = TRUE
                  /\ pol'[l].isLatest = FALSE
                  /\ "policyName" \notin DOMAIN u =>
                        pol'[polNext].policyName = pol'[l].policyName
                  /\ "escalationSteps" \notin DOMAIN u =>
                        pol'[polNext].escalationSteps = pol'[l].escalationSteps]_vars

\* C30: in a single-writer execution, createNewVersion(T, updates) with
\* pairwise distinct step orders always succeeds and yields a new latest
\* record, whatever soft-deletes, restores or purges were applied to T's
\* policy records before the call.
C30_CreateNewVersionSucceeds ==
    [][\A t \in Teams, u \in DistinctUpdates :
          createNewVersion(t, u) =>
             /\ polRes'.status = "ok"
             /\ polNext \in DOMAIN pol'
             /\ pol'[polNext].teamId = t
             /\ pol'[polNext].isLatest = TRUE
             /\ pol'[polNext].isDeleted = FALSE]_vars

\* C10: the versions that successive successful createNewVersion and
\* rollbackToVersion calls assign to a team are strictly increasing.
C10_VersionsIncrease ==
    [][(polRes'.op \in {"createNewVersion", "rollbackToVersion"} /\ polRes'.status = "ok") =>
          pol'[polRes'.id].version > assigned[polRes'.teamId]]_vars

====
